---- MODULE Spec2Model ----
(***************************************************************************)
(* TelcWrite / Klar: the correction renderer of the PDF export (tokenizer, *)
(* word wrap, page breaks) and the document store behind the HTTP API.     *)
(*                                                                         *)
(* Lengths are integers in hundredths of the renderer's unit (PDF points   *)
(* for the PDFKit renderer, millimetres for the jsPDF renderer), so that   *)
(* 12.6, 3.8 and 595.28 are exact.                                         *)
(***************************************************************************)
EXTENDS Integers, Sequences, FiniteSets, TLC

\* ------------------------------------------------------------------ bounds

\* longest correction string drawn as input
MaxLen == 5

\* documents ever created (generateId is called at most this often)
MaxDocs == 2

\* clock readings
MaxClock == 2

\* largest page size asked of the listing
MaxLimit == 2

\* pieces (spans, words, blanks) a correction with spans is put together from
MaxPieces == 3

\* documents in a store that is listed page by page
MaxListed == 3

\* requests whose repository calls overlap in time
MaxCallers == 2

\* ---------------------------------------------------------------- variables

VARIABLES
    rv,         \* renderer variant: which of the two renderers of the repository runs
    text,       \* the correction string handed to the renderer
    perLine,    \* how many glyphs of the regular font fill one line (font metrics)
    rpc,        \* position of the export driver: "start", "labelled", "rendered"
    doc,        \* the document cursor [y, page] (doc.y / y, and the page index)
    segments,   \* the segments the parser produced
    placed      \* the placements made so far, in order

rvars == <<rv, text, perLine, rpc, doc, segments, placed>>

VARIABLES
    sv,         \* server version: which generation of the server code runs
    documents,  \* db.data.documents / the documents table, in stored order
    contents,   \* db.data.contents / the contents table, in stored order
    kv,         \* db.data.content of the key-value generation: key -> value
    now,        \* the clock read by new Date()
    nextId,     \* the next value generateId() returns
    review,     \* the review request waiting for the AI (at most one)
    gen,        \* the generate-exercise request waiting for the AI (at most one)
    backup,     \* the file the last GET /db/export handed to the client
    textarea,   \* the editor page of the browser: its text and its autosave timer
    pdf,        \* the sections the last PDF export printed, in order
    listing,    \* the last GET /documents: the page asked for and the answer
    db,         \* lowdb between the awaits of overlapping calls: db.data in memory,
                \* the position of each call, the writes not yet in the file
    resp        \* the step just taken: the request, and the response if it ended

svars == <<sv, documents, contents, kv, now, nextId, review, gen, backup, textarea, pdf, listing, db, resp>>

vars == <<rvars, svars>>

\* -------------------------------------------------------------- characters

Alphabet == {"a", " ", "\n", "-", "+"}

Strings == UNION {[1..n -> Alphabet] : n \in 0..MaxLen}

\* /\s/ on the alphabet
IsSpace(c) == c = " " \/ c = "\n"

Variants == {"renderCorrection", "wrapCorrection"}

\* ---------------------------------------------------------------- geometry

\* page margin
Margin(v) == IF v = "renderCorrection" THEN 6800 ELSE 2400

\* A4 page width and height
PageW(v) == IF v = "renderCorrection" THEN 59528 ELSE 21000

PageH(v) == IF v = "renderCorrection" THEN 84189 ELSE 29700

\* content width CW
ContentW(v) == PageW(v) - Margin(v) * 2

\* fontSize * 1.4, or the leading handed to wrapCorrection
LineHeight(v) == IF v = "renderCorrection" THEN (900 * 14) \div 10 ELSE 380

\* the room of a line and no more
LineNeedExact(v) == LineHeight(v)

\* the room asked of checkPage / need before a line is started
LineNeed(v) == IF v = "renderCorrection" THEN LineHeight(v) + 200 ELSE LineHeight(v) + 100

\* the bottom margin line: doc.page.height - M, H - M
Bottom(v) == PageH(v) - Margin(v)

\* width of a string: glyph count times the glyph width of the font; the bold
\* font is wider than the regular one
GlyphW(v, n, bold) ==
    IF bold THEN ContentW(v) \div n + ContentW(v) \div (n * 4) ELSE ContentW(v) \div n

widthOfString(v, n, word, bold) == Len(word) * GlyphW(v, n, bold)

\* ------------------------------------------------------------------ parser

\* two equal delimiter characters d at i, i + 1
IsDelim(s, i, d) == i + 1 <= Len(s) /\ s[i] = d /\ s[i + 1] = d

\* a tokenizer that takes the end of the text for the closing delimiter
CloseOfOrEnd(s, i, d) ==
    LET C == {j \in (i + 2)..Len(s) :
                 IsDelim(s, j, d) /\ \A k \in (i + 2)..(j - 1) : s[k] # "\n"}
    IN  IF C = {} THEN Len(s) + 1 ELSE CHOOSE j \in C : \A k \in C : j <= k

\* where the lazy group (.*?) opened by the delimiter at i closes: the first
\* closing delimiter with no newline before it ('.' matches no newline); 0 if none
CloseOf(s, i, d) ==
    LET C == {j \in (i + 2)..Len(s) :
                 IsDelim(s, j, d) /\ \A k \in (i + 2)..(j - 1) : s[k] # "\n"}
    IN  IF C = {} THEN 0 ELSE CHOOSE j \in C : \A k \in C : j <= k

\* /--(.*?)--|\+\+(.*?)\+\+/ matches at i
MatchAt(s, i) ==
    \/ IsDelim(s, i, "-") /\ CloseOf(s, i, "-") # 0
    \/ IsDelim(s, i, "+") /\ CloseOf(s, i, "+") # 0

\* the start of the leftmost match at or after from; 0 if none
NextMatch(s, from) ==
    LET S == {i \in from..Len(s) : MatchAt(s, i)}
    IN  IF S = {} THEN 0 ELSE CHOOSE i \in S : \A k \in S : i <= k

Black(t) == [t |-> t, color |-> "BLACK", bold |-> FALSE, strike |-> FALSE]

\* the segment pushed for a span: red strikethrough / green bold in
\* renderCorrection, red / green in wrapCorrection
Marked(v, t, d) ==
    IF d = "-"
    THEN [t |-> t, color |-> "RED", bold |-> FALSE, strike |-> (v = "renderCorrection")]
    ELSE [t |-> t, color |-> "GREEN", bold |-> (v = "renderCorrection"), strike |-> FALSE]

\* what the replace callback pushes before the span's own segment:
\* wrapCorrection separates it from what precedes with a blank
BeforeMarked(v, parts) ==
    IF v = "wrapCorrection" /\ parts # <<>> THEN Append(parts, Black(<<" ">>)) ELSE parts

\* the replace callback run over every match, then the tail; last counts the
\* characters consumed so far
RECURSIVE ParseFrom(_, _, _, _)
ParseFrom(v, s, last, parts) ==
    LET i == NextMatch(s, last + 1)
    IN  IF i = 0
        THEN IF last < Len(s) THEN Append(parts, Black(SubSeq(s, last + 1, Len(s)))) ELSE parts
        ELSE LET j  == CloseOf(s, i, s[i])
                 p1 == IF i - 1 > last THEN Append(parts, Black(SubSeq(s, last + 1, i - 1)))
                       ELSE parts
                 p2 == Append(BeforeMarked(v, p1), Marked(v, SubSeq(s, i + 2, j - 1), s[i]))
             IN  ParseFrom(v, s, j + 1, p2)

Parse(v, s) == ParseFrom(v, s, 0, <<>>)

\* ------------------------------------------------------------------- layout

\* the maximal runs of whitespace and of non-whitespace of a line, in order:
\* line.split(/(\s+)/) without its empty strings
RECURSIVE Runs(_)
Runs(line) ==
    IF line = <<>> THEN <<>>
    ELSE LET sp == IsSpace(line[1])
             E  == {k \in 1..Len(line) : \A m \in 1..k : IsSpace(line[m]) = sp}
             n  == CHOOSE k \in E : \A m \in E : m <= k
         IN  <<SubSeq(line, 1, n)>> \o Runs(SubSeq(line, n + 1, Len(line)))

\* t.split('\n')
RECURSIVE SplitLines(_)
SplitLines(t) ==
    LET N == {k \in 1..Len(t) : t[k] = "\n"}
    IN  IF N = {} THEN <<t>>
        ELSE LET n == CHOOSE k \in N : \A m \in N : k <= m
             IN  <<SubSeq(t, 1, n - 1)>> \o SplitLines(SubSeq(t, n + 1, Len(t)))

WordItem(seg, w) ==
    [nl |-> FALSE, word |-> w, color |-> seg.color, bold |-> seg.bold, strike |-> seg.strike]

NewlineItem == [nl |-> TRUE, word |-> <<>>, color |-> "BLACK", bold |-> FALSE, strike |-> FALSE]

\* the words of one line as items
RECURSIVE LineItems(_, _)
LineItems(seg, runs) ==
    IF runs = <<>> THEN <<>>
    ELSE <<WordItem(seg, Head(runs))>> \o LineItems(seg, Tail(runs))

\* the lines of a segment: a forced newline before every line but the first
RECURSIVE SegLines(_, _, _)
SegLines(seg, lines, li) ==
    IF li > Len(lines) THEN <<>>
    ELSE (IF li > 1 THEN <<NewlineItem>> ELSE <<>>)
         \o LineItems(seg, Runs(lines[li])) \o SegLines(seg, lines, li + 1)

\* the token stream of the nested forEach loops
RECURSIVE Items(_)
Items(segs) ==
    IF segs = <<>> THEN <<>>
    ELSE SegLines(Head(segs), SplitLines(Head(segs).t), 1) \o Items(Tail(segs))

\* a page check that moves y to the top margin and starts no page
checkPageSamePage(v, cur, needed) ==
    IF cur.y + needed > Bottom(v) THEN [cur EXCEPT !.y = Margin(v)] ELSE cur

\* checkPage(doc, needed) / need(h): a new page when the room is insufficient
checkPage(v, cur, needed) ==
    IF cur.y + needed > Bottom(v)
    THEN [cur EXCEPT !.y = Margin(v), !.page = @ + 1]
    ELSE cur

\* a wrap test that also breaks when the word ends exactly at the right margin
NeedsBreakAtBoundary(v, x, w) == x > Margin(v) /\ x + w >= Margin(v) + ContentW(v)

\* a wrap test that looks at the cursor only, not at the word's width
NeedsBreakIgnoringWidth(v, x, w) == x > Margin(v) /\ x > Margin(v) + ContentW(v)

\* the wrap test made before a word is placed
NeedsBreak(v, x, w) == x > Margin(v) /\ x + w > Margin(v) + ContentW(v)

\* a line break that leaves x where it is
LineBreakKeepX(v, cur) ==
    checkPage(v, [cur EXCEPT !.y = @ + LineHeight(v)], LineNeed(v))

\* the cursor after the line break (forced, or made by the wrap)
LineBreak(v, cur) ==
    checkPage(v, [cur EXCEPT !.x = Margin(v), !.y = @ + LineHeight(v)], LineNeed(v))

\* the cursor a word of width w is placed at
WordCursor(v, cur, w) == IF NeedsBreak(v, cur.x, w) THEN LineBreak(v, cur) ELSE cur

\* what one text call draws: the word at the cursor in the fill colour and the
\* font set for the segment; the options of the call are { lineBreak: false,
\* continued: false } in renderCorrection and none in wrapCorrection, so the
\* segment's strike flag reaches no call
Placement(it, cur, w) ==
    [word |-> it.word, x |-> cur.x, y |-> cur.y, page |-> cur.page, w |-> w,
     color |-> it.color, bold |-> it.bold, strike |-> FALSE]

\* a placement that draws a word only where no line break came before it
PlaceWordOnlyUnbroken(v, out, it, cur, w) ==
    IF NeedsBreak(v, cur.x, w) THEN out ELSE Append(out, Placement(it, cur, w))

\* doc.text(word, x, doc.y) / pdf.text(word, x, y): every word is placed, after
\* the line break if one was needed
PlaceWord(v, out, it, cur, w) == Append(out, Placement(it, WordCursor(v, cur, w), w))

\* the body of the loops over the token stream: [cur, placed] at the end
RECURSIVE Layout(_, _, _, _, _)
Layout(v, n, items, cur, out) ==
    IF items = <<>> THEN [cur |-> cur, placed |-> out]
    ELSE LET it == Head(items)
         IN  IF it.nl
             THEN Layout(v, n, Tail(items), LineBreak(v, cur), out)
             ELSE LET w  == widthOfString(v, n, it.word, it.bold)
                      c1 == WordCursor(v, cur, w)
                  IN  Layout(v, n, Tail(items), [c1 EXCEPT !.x = @ + w],
                             PlaceWord(v, out, it, cur, w))

\* the cursor the renderer starts from: x at the margin; wrapCorrection asks
\* for the room of a line first, renderCorrection does not
StartCursor(v, d) ==
    LET c == [x |-> Margin(v), y |-> d.y, page |-> d.page]
    IN  IF v = "wrapCorrection" THEN checkPage(v, c, LineNeed(v)) ELSE c

\* renderCorrection(doc, text, pageWidth) / wrapCorrection(str, size, leading)
Render(v, n, s, d) ==
    IF v = "wrapCorrection" /\ s = <<>>
    THEN [segments |-> <<>>, placed |-> <<>>, doc |-> d]
    ELSE LET segs == Parse(v, s)
             r    == Layout(v, n, Items(segs), StartCursor(v, d), <<>>)
         IN  [segments |-> segs, placed |-> r.placed,
              doc |-> [y |-> r.cur.y + LineHeight(v), page |-> r.cur.page]]

\* ------------------------------------------------------------ export driver

\* room asked before a section label
SectionNeed(v) == IF v = "renderCorrection" THEN 2000 ELSE 1000

\* what printing the label advances y by: a line of 10 pt Helvetica-Bold and
\* moveDown(0.2) in PDFKit, y += 5 in the jsPDF driver
LabelAdvance(v) == IF v = "renderCorrection" THEN 1190 + 238 ELSE 500

\* cursor positions the driver can be at when it reaches the correction
StartYs(v) ==
    {Margin(v), Bottom(v) - SectionNeed(v) - LineHeight(v), Bottom(v) - SectionNeed(v)}

\* ---------------------------------------------------------------- JS values

\* values are strings: a number is written as its literal, undefined and null
\* as the two names below
Undefined == "undefined"

Null == "null"

NumberLits == {"0", "30"}

TypeOf(x) ==
    IF x \in NumberLits THEN "number"
    ELSE IF x = Undefined THEN "undefined"
    ELSE IF x = Null THEN "object"
    ELSE "string"

\* x ?? d
Coalesce(x, d) == IF x = Undefined \/ x = Null THEN d ELSE x

\* !x
Falsy(x) == x \in {"", "0", Null, Undefined}

Versions == {"klar", "sqlite", "lowdb", "legacy"}

\* the generations whose store keeps content records by documentId
Relational == {"klar", "sqlite", "lowdb"}

\* title.trim()
RECURSIVE TrimLeft(_)
TrimLeft(t) == IF t # <<>> /\ t[1] = " " THEN TrimLeft(Tail(t)) ELSE t

RECURSIVE TrimRight(_)
TrimRight(t) ==
    IF t # <<>> /\ t[Len(t)] = " " THEN TrimRight(SubSeq(t, 1, Len(t) - 1)) ELSE t

Trim(t) == TrimRight(TrimLeft(t))

\* ------------------------------------------------------------------- errors

DuplicateMessage == "Document with this title already exists"

NotFoundMessage == "Document not found"

NoError == [code |-> "", message |-> "", ref |-> "none"]

\* an error made on the spot: new Error(message), a constraint failure
NewError(message) == [code |-> Undefined, message |-> message, ref |-> "new"]

\* what createDocument throws for a title that exists: createError(code, ..),
\* the module's DUPLICATE_DOCUMENT_ERROR object, or new Error(..)
DuplicateError(v) ==
    IF v \in {"klar", "sqlite"}
    THEN [code |-> "DUPLICATE_DOCUMENT", message |-> DuplicateMessage, ref |-> "new"]
    ELSE IF v = "lowdb"
    THEN [code |-> Undefined, message |-> DuplicateMessage, ref |-> "DUPLICATE_DOCUMENT_ERROR"]
    ELSE NewError(DuplicateMessage)

\* what deleteDocument throws for an id that does not exist
NotFoundError(v) ==
    IF v \in {"klar", "sqlite"}
    THEN [code |-> "DOCUMENT_NOT_FOUND", message |-> NotFoundMessage, ref |-> "new"]
    ELSE IF v = "lowdb"
    THEN [code |-> Undefined, message |-> NotFoundMessage, ref |-> "DOCUMENT_NOT_FOUND_ERROR"]
    ELSE NewError(NotFoundMessage)

\* module.exports of the repository: the names a route can read from it
ExportNames(v) ==
    IF v \in {"klar", "sqlite"} THEN {"DUPLICATE_DOCUMENT", "DOCUMENT_NOT_FOUND"}
    ELSE IF v = "lowdb" THEN {"DUPLICATE_DOCUMENT_ERROR"}
    ELSE {}

\* repository.<name>: undefined for a name that is not exported
Export(v, name) == IF name \in ExportNames(v) THEN name ELSE Undefined

\* the older generation's test by object identity, whatever the repository
IsDuplicateByReference(v, err) == err.ref = Export(v, "DUPLICATE_DOCUMENT_ERROR")

\* a test that takes every error for a duplicate title
IsAnyError(v, err) == err # NoError

\* the test the create route makes on a caught error
IsDuplicate(v, err) ==
    IF v \in {"klar", "sqlite"} THEN err.code = Export(v, "DUPLICATE_DOCUMENT")
    ELSE IF v = "lowdb" THEN err.ref = Export(v, "DUPLICATE_DOCUMENT_ERROR")
    ELSE err.message = DuplicateMessage

\* the test the delete route makes on a caught error
IsNotFound(v, err) ==
    IF v \in {"klar", "sqlite"} THEN err.code = Export(v, "DOCUMENT_NOT_FOUND")
    ELSE IF v = "lowdb" THEN err.ref = Export(v, "DOCUMENT_NOT_FOUND_ERROR")
    ELSE err.message = NotFoundMessage

\* --------------------------------------------------------------- repository

\* null, as getDocument returns it
NoDocument == [id |-> 0, title |-> <<>>, creationDate |-> 0]

\* {} as getContent returns it: every field undefined (0 for the id)
EmptyContent ==
    [documentId |-> 0, task |-> Undefined, submissionText |-> Undefined,
     reviewScore |-> Undefined, reviewFeedback |-> Undefined, correction |-> Undefined]

RemoveAt(s, i) == SubSeq(s, 1, i - 1) \o SubSeq(s, i + 1, Len(s))

\* documents.findIndex(doc => doc.id === id), counted from 1; 0 for -1
IndexOfDoc(docs, id) ==
    LET S == {i \in 1..Len(docs) : docs[i].id = id}
    IN  IF S = {} THEN 0 ELSE CHOOSE i \in S : \A k \in S : i <= k

\* contents.findIndex(c => c.documentId === id), counted from 1; 0 for -1
IndexOfContent(conts, id) ==
    LET S == {i \in 1..Len(conts) : conts[i].documentId = id}
    IN  IF S = {} THEN 0 ELSE CHOOSE i \in S : \A k \in S : i <= k

getDocument(docs, id) ==
    IF IndexOfDoc(docs, id) = 0 THEN NoDocument ELSE docs[IndexOfDoc(docs, id)]

getContent(conts, id) ==
    IF IndexOfContent(conts, id) = 0 THEN EmptyContent ELSE conts[IndexOfContent(conts, id)]

\* a createDocument without the test for an existing title
createDocumentUnchecked(v, docs, title, id, date) ==
    LET d == [id |-> id, title |-> title, creationDate |-> date]
    IN  [err |-> NoError, documents |-> Append(docs, d), document |-> d]

\* createDocument(title): id from generateId(), creationDate from the clock
createDocument(v, docs, title, id, date) ==
    IF \E i \in 1..Len(docs) : docs[i].title = title
    THEN [err |-> DuplicateError(v), documents |-> docs, document |-> NoDocument]
    ELSE LET d == [id |-> id, title |-> title, creationDate |-> date]
         IN  [err |-> NoError, documents |-> Append(docs, d), document |-> d]

\* deleteDocument(id) of the relational generations: the document, then its
\* content (the first record found; every row in the SQL generation)
deleteDocument(v, docs, conts, id) ==
    LET di == IndexOfDoc(docs, id)
        ci == IndexOfContent(conts, id)
    IN  IF di = 0
        THEN [err |-> NotFoundError(v), documents |-> docs, contents |-> conts]
        ELSE [err |-> NoError,
              documents |-> RemoveAt(docs, di),
              contents |->
                  IF v = "sqlite"
                  THEN SelectSeq(conts, LAMBDA c : c.documentId # id)
                  ELSE IF ci = 0 THEN conts ELSE RemoveAt(conts, ci)]

\* the record upsertContent builds from its command
ContentOf(cmd) ==
    [documentId |-> cmd.documentId,
     task |-> Coalesce(cmd.task, ""),
     submissionText |-> Coalesce(cmd.submissionText, ""),
     reviewScore |-> Coalesce(cmd.reviewScore, Null),
     reviewFeedback |-> Coalesce(cmd.reviewFeedback, ""),
     correction |-> Coalesce(cmd.correction, "")]

\* an upsert that keeps the stored value of a field the command leaves out
upsertContentMerging(v, docs, conts, cmd) ==
    LET ci  == IndexOfContent(conts, cmd.documentId)
        old == getContent(conts, cmd.documentId)
        new == [documentId |-> cmd.documentId,
                task |-> Coalesce(Coalesce(cmd.task, old.task), ""),
                submissionText |-> Coalesce(Coalesce(cmd.submissionText, old.submissionText), ""),
                reviewScore |-> Coalesce(Coalesce(cmd.reviewScore, old.reviewScore), Null),
                reviewFeedback |-> Coalesce(Coalesce(cmd.reviewFeedback, old.reviewFeedback), ""),
                correction |-> Coalesce(Coalesce(cmd.correction, old.correction), "")]
    IN  IF cmd.documentId = 0 \/ (v = "sqlite" /\ IndexOfDoc(docs, cmd.documentId) = 0)
        THEN [err |-> NewError("upsert failed"), contents |-> conts]
        ELSE [err |-> NoError,
              contents |-> IF ci = 0 THEN Append(conts, new) ELSE [conts EXCEPT ![ci] = new]]

\* upsertContent(upsertContentCommand): replace in place or push (klar),
\* remove and push (lowdb), INSERT OR REPLACE under the foreign key (sqlite)
upsertContent(v, docs, conts, cmd) ==
    LET ci == IndexOfContent(conts, cmd.documentId)
    IN  IF cmd.documentId = 0
        THEN [err |-> NewError("Missing documentId in content"), contents |-> conts]
        ELSE IF v = "sqlite" /\ IndexOfDoc(docs, cmd.documentId) = 0
        THEN [err |-> NewError("FOREIGN KEY constraint failed"), contents |-> conts]
        ELSE IF v = "klar" /\ ci # 0
        THEN [err |-> NoError, contents |-> [conts EXCEPT ![ci] = ContentOf(cmd)]]
        ELSE [err |-> NoError,
              contents |-> Append(IF ci = 0 THEN conts ELSE RemoveAt(conts, ci),
                                  ContentOf(cmd))]

\* where a document goes in a list sorted newest first: behind every document
\* that is as new or newer (the sort is stable)
RECURSIVE InsertByDate(_, _)
InsertByDate(sorted, d) ==
    IF sorted = <<>> THEN <<d>>
    ELSE IF Head(sorted).creationDate >= d.creationDate
         THEN <<Head(sorted)>> \o InsertByDate(Tail(sorted), d)
         ELSE <<d>> \o sorted

\* sortByNewest(docs) / ORDER BY creationDate DESC
RECURSIVE sortByNewest(_)
sortByNewest(docs) ==
    IF docs = <<>> THEN <<>>
    ELSE InsertByDate(sortByNewest(SubSeq(docs, 1, Len(docs) - 1)), docs[Len(docs)])

Max(a, b) == IF a >= b THEN a ELSE b

Min(a, b) == IF a <= b THEN a ELSE b

\* a division that rounds down
FloorDiv(a, b) == a \div b

\* Math.ceil(a / b) for a >= 0, b >= 1
CeilDiv(a, b) == (a + b - 1) \div b

\* an offset that takes pages as counted from 0
PageStartOffByOne(safePage, limit) == safePage * limit

\* the offset of a page: (safePage - 1) * limit
PageStart(safePage, limit) == (safePage - 1) * limit

\* getDocuments({ page, limit })
getDocuments(docs, page, limit) ==
    LET allDocuments == sortByNewest(docs)
        totalItems   == Len(allDocuments)
        totalPages   == Max(1, CeilDiv(totalItems, limit))
        safePage     == Max(1, Min(page, totalPages))
        start        == PageStart(safePage, limit)
    IN  [documents  |-> SubSeq(allDocuments, start + 1, Min(start + limit, totalItems)),
         page       |-> safePage,
         limit      |-> limit,
         totalItems |-> totalItems,
         totalPages |-> totalPages]

\* ------------------------------------------- the key-value generation's store

Suffixes ==
    {"task", "content", "content-review-score", "content-review-feedback",
     "content-review-correction"}

\* the key `${title}-${suffix}`
Key(title, suffix) == <<title, suffix>>

\* setData(key, value): db.data.content[key] = value, then the write to the
\* JSON file, which leaves out a key whose value is undefined
setData(store, key, value) ==
    IF value = Undefined
    THEN [k \in DOMAIN store \ {key} |-> store[k]]
    ELSE [k \in DOMAIN store \cup {key} |-> IF k = key THEN value ELSE store[k]]

\* getData(key): db.data.content[key] ?? ''
getData(store, key) == IF key \in DOMAIN store THEN store[key] ELSE ""

\* deleteDocumentContent(title): each of the document's keys is deleted if
\* its value is truthy
deleteDocumentContent(store, title) ==
    [k \in {q \in DOMAIN store : ~(q[1] = title /\ q[2] \in Suffixes /\ ~Falsy(store[q]))}
        |-> store[k]]

\* deleteDocument(id) of the key-value generation
deleteDocumentLegacy(docs, store, id) ==
    LET di == IndexOfDoc(docs, id)
    IN  IF di = 0
        THEN [err |-> NewError(NotFoundMessage), documents |-> docs, kv |-> store]
        ELSE [err |-> NoError,
              documents |-> RemoveAt(docs, di),
              kv |-> deleteDocumentContent(store, docs[di].title)]

\* ------------------------------------------------------------ the AI service

\* what the completion holds: the call failed, the text is no JSON, the JSON
\* is null, or it is an object with these three fields
NoAi == [kind |-> "none", score |-> Undefined, feedback |-> Undefined, correction |-> Undefined]

\* a well-formed review
GoodAi == [kind |-> "object", score |-> "30", feedback |-> "f", correction |-> "c"]

AiResponses ==
    {[NoAi EXCEPT !.kind = k] : k \in {"apiError", "notJson", "null"}}
    \cup {GoodAi,
          [GoodAi EXCEPT !.score = "0"],
          [GoodAi EXCEPT !.score = Undefined],
          [GoodAi EXCEPT !.score = "thirty"],
          [GoodAi EXCEPT !.feedback = Undefined],
          [GoodAi EXCEPT !.correction = Undefined]}

ReviewFailed == NewError("Failed to get review from OpenAI")

\* openai.reviewContent(cmd): the parsed completion; the klar generation
\* checks its shape, the older one returns whatever JSON.parse gave
reviewContent(v, ai) ==
    IF ai.kind \in {"apiError", "notJson"} THEN [err |-> ReviewFailed, review |-> NoAi]
    ELSE IF v \in {"klar", "sqlite"}
         /\ (\/ ai.kind = "null"
             \/ TypeOf(ai.score) # "number"
             \/ TypeOf(ai.feedback) # "string"
             \/ TypeOf(ai.correction) # "string")
    THEN [err |-> ReviewFailed, review |-> NoAi]
    ELSE [err |-> NoError, review |-> ai]

\* ------------------------------------------------------------ HTTP handlers

NoReview == [active |-> FALSE, id |-> 0, content |-> EmptyContent]

NoGen == [active |-> FALSE, attempt |-> 0]

\* what the last step was (the title it was about after trimming, the id)
\* and what it answered; status 0: no answer yet
Answer(op, title, id, ai, status, error) ==
    [op |-> op, title |-> title, id |-> id, ai |-> ai, status |-> status, error |-> error]

Step(op) == Answer(op, <<>>, 0, NoAi, 0, "")

\* titles a client sends, before trimming
RawTitles == {<<>>, <<" ">>, <<"A">>, <<"B">>, <<"A", " ">>}

\* titles the exercise generator returns
GenTitles == {<<"A">>, <<"B">>}

Ids == 1..MaxDocs

\* a request body without any field: {}
EmptyBody ==
    [task |-> Undefined, submissionText |-> Undefined, reviewScore |-> Undefined,
     reviewFeedback |-> Undefined, correction |-> Undefined]

\* bodies of POST /data/:documentId; a field that is left out is undefined
\* the body the editor sends on saving: the task and the text written so far
TextBody == [EmptyBody EXCEPT !.task = "t", !.submissionText = "s"]

Bodies == {EmptyBody, TextBody}

\* { documentId: req.params.documentId, ...req.body }
Command(id, body) ==
    [documentId |-> id, task |-> body.task, submissionText |-> body.submissionText,
     reviewScore |-> body.reviewScore, reviewFeedback |-> body.reviewFeedback,
     correction |-> body.correction]

TitleRequired(v) ==
    IF v = "legacy" THEN "Title is required" ELSE "Title is required to create a document"

\* the clock moves on between two requests
Tick ==
    /\ now < MaxClock
    /\ now' = now + 1
    /\ resp' = Step("tick")
    /\ UNCHANGED <<rvars, db, pdf, listing, backup, textarea, sv, documents, contents, kv, nextId, review, gen>>

\* POST /documents
PostDocuments(raw) ==
    LET title == Trim(raw)
        r     == createDocument(sv, documents, title, nextId, now)
    IN  /\ IF raw = <<>> \/ title = <<>>
           THEN /\ resp' = Answer("POST /documents", raw, 0, NoAi, 400, TitleRequired(sv))
                /\ UNCHANGED <<documents, nextId>>
           ELSE /\ r.err = NoError => nextId <= MaxDocs
                /\ documents' = r.documents
                /\ nextId' = IF r.err = NoError THEN nextId + 1 ELSE nextId
                /\ resp' =
                     IF r.err = NoError
                     THEN Answer("POST /documents", title, r.document.id, NoAi, 200, "")
                     ELSE IF IsDuplicate(sv, r.err)
                     THEN Answer("POST /documents", title, 0, NoAi, 400, r.err.message)
                     ELSE Answer("POST /documents", title, 0, NoAi, 500,
                                 "Failed to create document")
        /\ UNCHANGED <<rvars, db, pdf, listing, backup, textarea, sv, contents, kv, now, review, gen>>

\* the answer of DELETE /documents/:id to what deleteDocument threw
DeleteAnswer(v, id, err) ==
    IF err = NoError THEN Answer("DELETE /documents", <<>>, id, NoAi, 200, "")
    ELSE IF IsNotFound(v, err)
    THEN Answer("DELETE /documents", <<>>, id, NoAi, 404,
                IF v \in {"klar", "sqlite"} THEN err.message ELSE NotFoundMessage)
    ELSE Answer("DELETE /documents", <<>>, id, NoAi, 500, "Failed to delete document")

\* DELETE /documents/:id
DeleteDocuments(id) ==
    /\ IF sv = "legacy"
       THEN LET r == deleteDocumentLegacy(documents, kv, id)
            IN  /\ documents' = r.documents
                /\ kv' = r.kv
                /\ contents' = contents
                /\ resp' = DeleteAnswer(sv, id, r.err)
       ELSE LET r == deleteDocument(sv, documents, contents, id)
            IN  /\ documents' = r.documents
                /\ contents' = r.contents
                /\ kv' = kv
                /\ resp' = DeleteAnswer(sv, id, r.err)
    /\ UNCHANGED <<rvars, db, pdf, listing, backup, textarea, sv, now, nextId, review, gen>>

\* POST /data/:documentId
PostData(id, body) ==
    /\ sv \in Relational
    /\ LET r == upsertContent(sv, documents, contents, Command(id, body))
       IN  /\ contents' = r.contents
           /\ resp' = IF r.err = NoError
                      THEN Answer("POST /data", <<>>, id, NoAi, 200, "")
                      ELSE Answer("POST /data", <<>>, id, NoAi, 500, "Failed to save content")
    /\ UNCHANGED <<rvars, db, pdf, listing, backup, textarea, sv, documents, kv, now, nextId, review, gen>>

\* POST /api/data/:key of the key-value generation, with body { value }
PostDataKey(title, suffix, value) ==
    /\ sv = "legacy"
    /\ kv' = setData(kv, Key(title, suffix), value)
    /\ resp' = Answer("POST /data", title, 0, NoAi, 200, "")
    /\ UNCHANGED <<rvars, db, pdf, listing, backup, textarea, sv, documents, contents, now, nextId, review, gen>>

\* POST /content/review/:documentId up to the call of the AI service
ReviewStart(id) ==
    /\ sv \in Relational
    /\ ~review.active
    /\ LET content == getContent(contents, id)
       IN  IF Falsy(content.submissionText)
           THEN /\ resp' = Answer("POST /content/review", <<>>, id, NoAi, 400,
                                  "No submission text found for review")
                /\ review' = review
           ELSE /\ resp' = Step("review sent")
                /\ review' = [active |-> TRUE, id |-> id, content |-> content]
    /\ UNCHANGED <<rvars, db, pdf, listing, backup, textarea, sv, documents, contents, kv, now, nextId, gen>>

ReviewFailure == "Failed to review content"

\* the rest of the review route once the AI service has answered: the
\* contents it leaves and the status it answers with
reviewRoute(v, docs, conts, rev, ai) ==
    LET r == reviewContent(v, ai)
        u == upsertContent(v, docs, conts,
                 [rev.content EXCEPT !.documentId = rev.id,
                                     !.reviewScore = r.review.score,
                                     !.reviewFeedback = r.review.feedback,
                                     !.correction = r.review.correction])
    IN  IF r.err # NoError THEN [contents |-> conts, status |-> 500]
        ELSE IF r.review.kind = "null" THEN [contents |-> conts, status |-> 500]
        ELSE IF u.err # NoError THEN [contents |-> conts, status |-> 500]
        ELSE [contents |-> u.contents, status |-> 200]

\* POST /content/review/:documentId from the AI service's answer on
ReviewFinish(ai) ==
    /\ review.active
    /\ LET r == reviewRoute(sv, documents, contents, review, ai)
       IN  /\ contents' = r.contents
           /\ resp' = Answer("POST /content/review", <<>>, review.id, ai, r.status,
                             IF r.status = 200 THEN "" ELSE ReviewFailure)
    /\ review' = NoReview
    /\ UNCHANGED <<rvars, db, pdf, listing, backup, textarea, sv, documents, kv, now, nextId, gen>>

MAX_RETRIES == 3

\* a loop test that lets the counter reach MAX_RETRIES
LoopAgainInclusive(attempt) == attempt + 1 <= MAX_RETRIES

\* the for loop's test after attempt++: attempt < MAX_RETRIES
LoopAgain(attempt) == attempt + 1 < MAX_RETRIES

\* what generateExercise gives: it throws, or a title and a task
GenResults ==
    {[ok |-> FALSE, title |-> <<>>, task |-> ""]}
    \cup {[ok |-> TRUE, title |-> t, task |-> "t"] : t \in GenTitles}

\* POST /exercises/generate arrives
GenerateStart ==
    /\ sv \in {"klar", "sqlite"}
    /\ ~gen.active
    /\ gen' = [active |-> TRUE, attempt |-> 0]
    /\ resp' = Step("generate sent")
    /\ UNCHANGED <<rvars, db, pdf, listing, backup, textarea, sv, documents, contents, kv, now, nextId, review>>

\* where the store can fail in a turn of the loop: nowhere, in createDocument
\* (db.read / db.write rejects), in upsertContent
StoreFaults == {"ok", "createDocument", "upsertContent"}

\* the error of a rejected read or write of the database file
IoError == NewError("EIO")

\* one turn of the retry loop: generateExercise answers, then createDocument
\* and upsertContent; io names the call in which the store fails, if any
GenerateTurn(g, io) ==
    /\ gen.active
    /\ LET c == createDocument(sv, documents, g.title, nextId, now)
           r == IF io = "createDocument"
                THEN [err |-> IoError, documents |-> documents, document |-> NoDocument]
                ELSE c
           w == upsertContent(sv, r.documents, contents,
                    Command(r.document.id, [EmptyBody EXCEPT !.task = g.task]))
           u == IF io = "upsertContent" THEN [err |-> IoError, contents |-> contents] ELSE w
       IN  IF ~g.ok
           THEN /\ resp' = Answer("POST /exercises/generate", <<>>, 0, NoAi, 500,
                                  "Failed to generate exercise")
                /\ gen' = NoGen
                /\ UNCHANGED <<documents, contents, nextId>>
           ELSE IF r.err = NoError
           THEN /\ nextId <= MaxDocs
                /\ documents' = r.documents
                /\ nextId' = nextId + 1
                /\ contents' = u.contents
                /\ gen' = NoGen
                /\ resp' = IF u.err = NoError
                           THEN Answer("POST /exercises/generate", g.title, r.document.id,
                                       NoAi, 200, "")
                           ELSE Answer("POST /exercises/generate", g.title, 0, NoAi, 500,
                                       "Failed to generate exercise")
           ELSE IF IsDuplicate(sv, r.err)
           THEN /\ UNCHANGED <<documents, contents, nextId>>
                /\ IF LoopAgain(gen.attempt)
                   THEN /\ gen' = [gen EXCEPT !.attempt = gen.attempt + 1]
                        /\ resp' = Answer("generate retry", g.title, 0, NoAi, 0, "")
                   ELSE /\ gen' = NoGen
                        /\ resp' = Answer("POST /exercises/generate", g.title, 0, NoAi, 409,
                                          "Titel existiert bereits. Bitte erneut versuchen.")
           ELSE /\ resp' = Answer("POST /exercises/generate", g.title, 0, NoAi, 500,
                                  "Failed to generate exercise")
                /\ gen' = NoGen
                /\ UNCHANGED <<documents, contents, nextId>>
    /\ UNCHANGED <<rvars, db, pdf, listing, backup, textarea, sv, kv, now, review>>

\* a turn of the loop in which the store does not fail
GenerateAttempt(g) == GenerateTurn(g, "ok")

\* ------------------------------------------------------ export and import

\* no file was downloaded yet
NoBackup == [taken |-> FALSE, documents |-> <<>>, contents |-> <<>>]

\* the generations with GET /db/export and POST /db/import on the JSON file
Backupable == {"klar", "lowdb"}

\* JSON.stringify of a value: undefined is left out, everything else is
\* written with its type
JsonStringify(x) == IF x = Undefined THEN <<"absent">> ELSE <<TypeOf(x), x>>

\* JSON.parse of what JsonStringify wrote: a field left out reads as undefined
JsonParse(j) ==
    IF j[1] = "absent" THEN Undefined
    ELSE IF j[1] = "object" THEN Null
    ELSE j[2]

\* a content record written to the file and read back
ContentThroughJson(c) ==
    [documentId |-> c.documentId,
     task |-> JsonParse(JsonStringify(c.task)),
     submissionText |-> JsonParse(JsonStringify(c.submissionText)),
     reviewScore |-> JsonParse(JsonStringify(c.reviewScore)),
     reviewFeedback |-> JsonParse(JsonStringify(c.reviewFeedback)),
     correction |-> JsonParse(JsonStringify(c.correction))]

\* the size of a text in kB: "S" stands for a text of 60 kB, the others are
\* far below one kB
TextKb(t) == IF t = "S" THEN 60 ELSE 0

\* the size in kB of a JSON body holding these content records
RECURSIVE BodyKb(_)
BodyKb(conts) ==
    IF conts = <<>> THEN 0
    ELSE TextKb(Head(conts).task) + TextKb(Head(conts).submissionText)
         + TextKb(Head(conts).reviewFeedback) + TextKb(Head(conts).correction)
         + BodyKb(Tail(conts))

\* the limit in kB of a JSON body parser: express.json() of the application
\* (the default, 100kb) and express.json({ limit: '10mb' }) of the import route
jsonLimit(parser) == IF parser = "app" THEN 100 ELSE 10240

\* the parsers a request to the import route runs through, in order
ImportParsers == <<"app", "route">>

\* the first parser of the chain reads the body and the later ones find it
\* parsed: a body above the first limit is refused (413)
BodyAccepted(parsers, kb) == kb <= jsonLimit(parsers[1])

\* the body the editor sends for a long text
BigBody == [EmptyBody EXCEPT !.task = "t", !.submissionText = "S"]

\* GET /db/export: res.download of the database file, which exists once
\* something was written
DbExport ==
    /\ sv \in Backupable
    /\ nextId > 1 \/ contents # <<>>
    /\ backup' = [taken |-> TRUE, documents |-> documents,
                  contents |-> [i \in 1..Len(contents) |-> ContentThroughJson(contents[i])]]
    /\ resp' = Answer("GET /db/export", <<>>, 0, NoAi, 200, "")
    /\ UNCHANGED <<rvars, db, pdf, listing, textarea, sv, documents, contents, kv, now, nextId, review, gen>>

\* POST /db/import with the file of the last export as the body
DbImport ==
    /\ sv \in Backupable
    /\ backup.taken
    /\ IF BodyAccepted(ImportParsers, BodyKb(backup.contents))
       THEN /\ documents' = backup.documents
            /\ contents' = backup.contents
            /\ resp' = Answer("POST /db/import", <<>>, 0, NoAi, 200, "")
       ELSE /\ resp' = Answer("POST /db/import", <<>>, 0, NoAi, 413, "request entity too large")
            /\ UNCHANGED <<documents, contents>>
    /\ UNCHANGED <<rvars, db, pdf, listing, backup, textarea, sv, kv, now, nextId, review, gen>>

\* ------------------------------------- the editor page (key-value generation)

\* no editor page is open
NoPage == [open |-> FALSE, value |-> "", pending |-> FALSE]

\* the document whose page the browser opens
PageTitle == <<"A">>

\* texts typed into the editor: none, a one-word text, a long text
Typed == {"", "s", "S"}

\* countWords(text): text.trim().split(/\s+/) without its empty strings; "s"
\* is a text of one word, "S" a text of about 10,000 words
countWords(t) == IF t = "S" THEN 10000 ELSE IF t = "" THEN 0 ELSE 1

MinWords == 100

\* canSubmitWritingForReview(), on the text of the editor
canSubmitWritingForReview(value) == countWords(value) >= MinWords

\* the page is loaded: loadSavedContent(contentTextarea, 'content')
ClientOpen ==
    /\ sv = "legacy"
    /\ ~textarea.open
    /\ \E i \in 1..Len(documents) : documents[i].title = PageTitle
    /\ LET saved == getData(kv, Key(PageTitle, "content"))
       IN  textarea' = [open |-> TRUE, pending |-> FALSE,
                        value |-> IF Falsy(saved) THEN "" ELSE saved]
    /\ resp' = Step("page loaded")
    /\ UNCHANGED <<rvars, db, pdf, listing, backup, sv, documents, contents, kv, now, nextId, review, gen>>

\* an input event on the editor: the autosave timer is started anew
ClientInput(t) ==
    /\ sv = "legacy"
    /\ textarea.open
    /\ ~review.active
    /\ textarea' = [textarea EXCEPT !.value = t, !.pending = TRUE]
    /\ resp' = Step("input")
    /\ UNCHANGED <<rvars, db, pdf, listing, backup, sv, documents, contents, kv, now, nextId, review, gen>>

\* the autosave timer fires 500 ms after the last input: db.save(key, value)
ClientAutosave ==
    /\ sv = "legacy"
    /\ textarea.pending
    /\ kv' = setData(kv, Key(PageTitle, "content"), textarea.value)
    /\ textarea' = [textarea EXCEPT !.pending = FALSE]
    /\ resp' = Answer("POST /data", PageTitle, 0, NoAi, 200, "")
    /\ UNCHANGED <<rvars, db, pdf, listing, backup, sv, documents, contents, now, nextId, review, gen>>

\* reviewOnClick() and POST /api/content/review up to the call of the AI
\* service: the server reads the task and the text saved under the two keys
ClientReviewClick ==
    /\ sv = "legacy"
    /\ textarea.open
    /\ ~review.active
    /\ IF canSubmitWritingForReview(textarea.value)
       THEN /\ review' = [active |-> TRUE, id |-> 0,
                          content |-> [EmptyContent EXCEPT
                              !.task = getData(kv, Key(PageTitle, "task")),
                              !.submissionText = getData(kv, Key(PageTitle, "content"))]]
            /\ resp' = Step("review sent")
       ELSE /\ review' = review
            /\ resp' = Step("Not enough words to submit for review")
    /\ UNCHANGED <<rvars, db, pdf, listing, backup, textarea, sv, documents, contents, kv, now, nextId, gen>>

\* POST /api/content/review from the AI service's answer on: three setData,
\* and the page reloads on any answer
ClientReviewFinish(ai) ==
    /\ sv = "legacy"
    /\ review.active
    /\ LET r == reviewContent(sv, ai)
           k1 == setData(kv, Key(PageTitle, "content-review-score"), r.review.score)
           k2 == setData(k1, Key(PageTitle, "content-review-feedback"), r.review.feedback)
           k3 == setData(k2, Key(PageTitle, "content-review-correction"), r.review.correction)
       IN  IF r.err # NoError \/ r.review.kind = "null"
           THEN /\ kv' = kv
                /\ resp' = Answer("POST /content/review", PageTitle, 0, ai, 500, ReviewFailure)
           ELSE /\ kv' = k3
                /\ resp' = Answer("POST /content/review", PageTitle, 0, ai, 200, "")
    /\ review' = NoReview
    /\ textarea' = NoPage
    /\ UNCHANGED <<rvars, db, pdf, listing, backup, sv, documents, contents, now, nextId, gen>>

\* ------------------------------------------- overlapping calls on lowdb

Callers == 1..MaxCallers

\* a call that has not been made
NoCall == [pc |-> "idle", snap |-> <<>>, document |-> NoDocument]

\* db.data after start-up, no call under way, no write on its way to the file
NoCalls == [data |-> <<>>, calls |-> [p \in Callers |-> NoCall], queue |-> <<>>]

\* the title caller p creates: every caller another one
CallerTitle(p) == [k \in 1..p |-> "A"]

\* createDocument(title) is called: db.read() starts reading the file
CreateCall(p) ==
    /\ sv \in Backupable
    /\ db.calls[p].pc = "idle"
    /\ db' = [db EXCEPT !.calls[p].pc = "reading"]
    /\ resp' = Step("createDocument called")
    /\ UNCHANGED <<rvars, pdf, listing, backup, textarea, sv, documents, contents, kv, now, nextId, review, gen>>

\* the adapter reads the file for caller p: what the file holds at this moment
FileRead(p) ==
    /\ db.calls[p].pc = "reading"
    /\ db' = [db EXCEPT !.calls[p].pc = "read", !.calls[p].snap = documents]
    /\ resp' = Step("file read")
    /\ UNCHANGED <<rvars, pdf, listing, backup, textarea, sv, documents, contents, kv, now, nextId, review, gen>>

\* db.data = what was read, then db.data.documents.push(document)
PushDocument(data, snap, d) == Append(snap, d)

\* db.read() resolves for caller p and createDocument runs to its next await:
\* db.data becomes what was read, the title is looked up in it, the document
\* is pushed and db.write() hands the serialised db.data to the writer
CreateResume(p) ==
    /\ db.calls[p].pc = "read"
    /\ LET snap == db.calls[p].snap
           r    == createDocument(sv, snap, CallerTitle(p), nextId, now)
       IN  IF r.err # NoError
           THEN /\ db' = [db EXCEPT !.data = snap, !.calls[p].pc = "threw"]
                /\ nextId' = nextId
           ELSE LET data == PushDocument(db.data, snap, r.document)
                IN  /\ db' = [db EXCEPT !.data = data,
                                        !.calls[p].pc = "writing",
                                        !.calls[p].document = r.document,
                                        !.queue = Append(@, [p |-> p, documents |-> data])]
                    /\ nextId' = nextId + 1
    /\ resp' = Step("createDocument resumed")
    /\ UNCHANGED <<rvars, pdf, listing, backup, textarea, sv, documents, contents, kv, now, review, gen>>

\* the writer finishes the oldest write: the file is replaced by what was
\* serialised, db.write() resolves and createDocument returns the document
WriteLands ==
    /\ db.queue # <<>>
    /\ LET w == Head(db.queue)
       IN  /\ documents' = w.documents
           /\ db' = [db EXCEPT !.queue = Tail(@), !.calls[w.p].pc = "returned"]
           /\ resp' = Answer("createDocument", CallerTitle(w.p), db.calls[w.p].document.id,
                             NoAi, 200, "")
    /\ UNCHANGED <<rvars, pdf, listing, backup, textarea, sv, contents, kv, now, nextId, review, gen>>

\* ------------------------------------------------------------------ listing

NoListing ==
    [asked |-> 0, result |-> [documents |-> <<>>, page |-> 0, limit |-> 0,
                              totalItems |-> 0, totalPages |-> 0]]

\* ?page= and ?limit= as parseInt reads them; 0 also stands for a parameter
\* that is absent or no number (NaN): both are falsy
PageQueries == (0 - 1)..(MaxListed + 1)

LimitQueries == 0..MaxLimit

\* Math.max(1, parseInt(req.query.page) || 1)
routePage(q) == Max(1, IF q = 0 THEN 1 ELSE q)

\* Math.min(100, Math.max(1, parseInt(req.query.limit) || 5))
routeLimit(q) == Min(100, Max(1, IF q = 0 THEN 5 ELSE q))

\* GET /documents?page=&limit=
GetDocuments(page, limit) ==
    /\ sv \in Relational
    /\ listing' = [asked |-> routePage(page),
                   result |-> getDocuments(documents, routePage(page), routeLimit(limit))]
    /\ resp' = Answer("GET /documents", <<>>, 0, NoAi, 200, "")
    /\ UNCHANGED <<rvars, db, pdf, backup, textarea, sv, documents, contents, kv, now, nextId, review, gen>>

\* the title the n-th document of a listed store was created with: n letters
ListedTitle(n) == [k \in 1..n |-> "A"]

\* the stores n creates lead to, the clock ticking between them or not
ListedStores ==
    UNION {{d \in [1..n -> [id : 1..n, title : {ListedTitle(k) : k \in 1..n},
                            creationDate : 1..MaxClock]] :
               /\ \A i \in 1..n : d[i].id = i /\ d[i].title = ListedTitle(i)
               /\ \A i \in 1..(n - 1) : d[i].creationDate <= d[i + 1].creationDate}
           : n \in 0..MaxListed}

\* --------------------------------------------------------------- PDF export

\* x || ''
OrEmpty(x) == IF Falsy(x) THEN "" ELSE x

\* getAllDocumentsWithContent(): the documents newest first, each with the
\* fields of its content record or their defaults
getAllDocumentsWithContent(docs, conts) ==
    LET s == sortByNewest(docs)
    IN  [i \in 1..Len(s) |->
            LET content == getContent(conts, s[i].id)
            IN  [id |-> s[i].id, title |-> s[i].title, creationDate |-> s[i].creationDate,
                 task |-> OrEmpty(content.task),
                 submissionText |-> OrEmpty(content.submissionText),
                 reviewScore |-> Coalesce(content.reviewScore, Null),
                 reviewFeedback |-> OrEmpty(content.reviewFeedback),
                 correction |-> OrEmpty(content.correction)]]

\* one printed section: the document, the label, how the value was printed
Section(item, label, via, value) ==
    [id |-> item.id, label |-> label, via |-> via, value |-> value]

\* a driver that prints the submission of every document
ShowsSubmissionAlways(item) == TRUE

\* if (!item.reviewFeedback): the notice and the submission are printed
ShowsSubmission(item) == Falsy(item.reviewFeedback)

\* the body of data.forEach in generatePdf: the sections of one document
ItemSections(v, item) ==
    (IF Falsy(item.task) THEN <<>> ELSE <<Section(item, "Aufgabe", "text", item.task)>>)
    \o (IF Falsy(item.reviewFeedback) THEN <<>>
        ELSE <<Section(item, "Feedback", "text", item.reviewFeedback)>>)
    \o (IF Falsy(item.correction) THEN <<>>
        ELSE <<Section(item, "Korrigierter Text", v, item.correction)>>)
    \o (IF ShowsSubmission(item)
        THEN <<Section(item, "Noch kein Feedback vorhanden", "notice", "")>>
             \o (IF Falsy(item.submissionText) THEN <<>>
                 ELSE <<Section(item, "Einreichung", "text", item.submissionText)>>)
        ELSE <<>>)

\* generatePdf(data)
RECURSIVE generatePdf(_, _)
generatePdf(v, data) ==
    IF data = <<>> THEN <<>>
    ELSE ItemSections(v, Head(data)) \o generatePdf(v, Tail(data))

\* GET /api/export/pdf, with the PDFKit driver or the jsPDF driver
ExportPdf(v) ==
    /\ sv = "klar"
    /\ LET data == getAllDocumentsWithContent(documents, contents)
       IN  IF data = <<>>
           THEN /\ pdf' = <<>>
                /\ resp' = Answer("GET /export/pdf", <<>>, 0, NoAi, 404,
                                  "Keine Daten zum Exportieren")
           ELSE /\ pdf' = generatePdf(v, data)
                /\ resp' = Answer("GET /export/pdf", <<>>, 0, NoAi, 200, "")
    /\ UNCHANGED <<rvars, db, listing, backup, textarea, sv, documents, contents, kv, now, nextId, review, gen>>

\* bodies of POST /data/:documentId: a saved text, a reviewed text
ReviewedBody ==
    [task |-> "t", submissionText |-> "s", reviewScore |-> "30",
     reviewFeedback |-> "f", correction |-> "c"]

ExportBodies == {TextBody, ReviewedBody}

\* values a client stores under a key: a text, the number 0
KeyValues == {"s", "0"}

\* the keys it stores them under: the text and the score of a document
ClientSuffixes == {"content", "content-review-score"}

StoreIdle ==
    /\ documents = <<>>
    /\ contents = <<>>
    /\ kv = [k \in {} |-> ""]
    /\ now = 1
    /\ nextId = 1
    /\ review = NoReview
    /\ gen = NoGen
    /\ backup = NoBackup
    /\ textarea = NoPage
    /\ pdf = <<>>
    /\ listing = NoListing
    /\ db = NoCalls
    /\ resp = Step("start")

\* the store after the creates of a listed store
ListingIdle ==
    /\ documents \in ListedStores
    /\ contents = <<>>
    /\ kv = [k \in {} |-> ""]
    /\ now = MaxClock
    /\ nextId = Len(documents) + 1
    /\ review = NoReview
    /\ gen = NoGen
    /\ backup = NoBackup
    /\ textarea = NoPage
    /\ pdf = <<>>
    /\ listing = NoListing
    /\ db = NoCalls
    /\ resp = Step("start")

RenderIdle ==
    /\ rv = "renderCorrection"
    /\ text = <<>>
    /\ perLine = 2
    /\ rpc = "start"
    /\ doc = [y |-> Margin("renderCorrection"), page |-> 1]
    /\ segments = <<>>
    /\ placed = <<>>

\* the server after start-up on an empty database
InitStore ==
    /\ sv \in Versions
    /\ StoreIdle
    /\ RenderIdle

\* documents and what is saved for them, under every generation of the server
NextStore ==
    \/ Tick
    \/ \E raw \in RawTitles : PostDocuments(raw)
    \/ \E id \in Ids : DeleteDocuments(id)
    \/ \E id \in Ids : PostData(id, TextBody)
    \/ \E t \in GenTitles, s \in ClientSuffixes, value \in KeyValues : PostDataKey(t, s, value)
    \/ GenerateStart
    \/ \E g \in GenResults : GenerateAttempt(g)

SpecStore == InitStore /\ [][NextStore]_vars

\* the generations with the generate-exercise route
InitGenerate ==
    /\ sv \in {"klar", "sqlite"}
    /\ StoreIdle
    /\ RenderIdle

\* generate-exercise requests among creates and deletes
NextGenerate ==
    \/ Tick
    \/ \E raw \in RawTitles : PostDocuments(raw)
    \/ \E id \in Ids : DeleteDocuments(id)
    \/ GenerateStart
    \/ \E g \in GenResults : GenerateAttempt(g)

\* generateExercise answers or throws: the await in the loop comes back
GenerateAnswers == \E g \in GenResults : GenerateAttempt(g)

SpecGenerate == InitGenerate /\ [][NextGenerate]_vars /\ WF_vars(GenerateAnswers)

\* the generations with the backup routes
InitBackup ==
    /\ sv \in Backupable
    /\ StoreIdle
    /\ RenderIdle

\* exports and imports among creates, deletes and content saves
NextBackup ==
    \/ \E raw \in GenTitles : PostDocuments(raw)
    \/ \E id \in Ids : DeleteDocuments(id)
    \/ \E id \in Ids, body \in {TextBody, BigBody} : PostData(id, body)
    \/ DbExport
    \/ DbImport

SpecBackup == InitBackup /\ [][NextBackup]_vars

\* the key-value generation with its editor page
InitClient ==
    /\ sv = "legacy"
    /\ StoreIdle
    /\ RenderIdle

\* what a user does on the editor page of a document
NextClient ==
    \/ \E raw \in GenTitles : PostDocuments(raw)
    \/ ClientOpen
    \/ \E t \in Typed : ClientInput(t)
    \/ ClientAutosave
    \/ ClientReviewClick
    \/ \E ai \in AiResponses : ClientReviewFinish(ai)

SpecClient == InitClient /\ [][NextClient]_vars

\* generate-exercise requests on a store whose reads and writes can fail
NextGenerateFaults ==
    \/ \E raw \in GenTitles : PostDocuments(raw)
    \/ \E id \in Ids : DeleteDocuments(id)
    \/ GenerateStart
    \/ \E g \in GenResults, io \in StoreFaults : GenerateTurn(g, io)

SpecGenerateFaults == InitGenerate /\ [][NextGenerateFaults]_vars

\* the current generation with documents in several states of review
InitExport ==
    /\ sv = "klar"
    /\ StoreIdle
    /\ RenderIdle

NextExport ==
    \/ Tick
    \/ \E raw \in GenTitles : PostDocuments(raw)
    \/ \E id \in Ids, body \in ExportBodies : PostData(id, body)
    \/ \E v \in Variants : ExportPdf(v)

SpecExport == InitExport /\ [][NextExport]_vars

\* a server of the current or the SQL generation that holds up to MaxListed
\* documents
InitListing ==
    /\ sv \in {"klar", "sqlite"}
    /\ ListingIdle
    /\ RenderIdle

NextListing ==
    \/ \E page \in PageQueries, limit \in LimitQueries : GetDocuments(page, limit)
    \/ \E id \in Ids : DeleteDocuments(id)

SpecListing == InitListing /\ [][NextListing]_vars

\* bodies of POST /data/:documentId: no field, a saved text, a reviewed text
ContentBodies == {EmptyBody, TextBody, ReviewedBody}

\* documents are created and deleted and their content is saved
NextContent ==
    \/ \E raw \in GenTitles : PostDocuments(raw)
    \/ \E id \in Ids : DeleteDocuments(id)
    \/ \E id \in Ids, body \in ContentBodies : PostData(id, body)

InitContent ==
    /\ sv \in Relational
    /\ StoreIdle
    /\ RenderIdle

SpecContent == InitContent /\ [][NextContent]_vars

\* createDocument calls of several requests on the lowdb generations
InitOverlap ==
    /\ sv \in Backupable
    /\ StoreIdle
    /\ RenderIdle

NextOverlap ==
    \/ Tick
    \/ \E p \in Callers : CreateCall(p) \/ FileRead(p) \/ CreateResume(p)
    \/ WriteLands

SpecOverlap == InitOverlap /\ [][NextOverlap]_vars

\* the generations with a review route by document id
InitReview ==
    /\ sv \in Relational
    /\ StoreIdle
    /\ RenderIdle

\* reviews, with the requests that can arrive while the AI service is asked
NextReview ==
    \/ \E raw \in RawTitles : PostDocuments(raw)
    \/ \E id \in Ids : DeleteDocuments(id)
    \/ \E id \in Ids, body \in Bodies : PostData(id, body)
    \/ \E id \in Ids : ReviewStart(id)
    \/ \E ai \in AiResponses : ReviewFinish(ai)

SpecReview == InitReview /\ [][NextReview]_vars

\* what the editor saves after more has been written
LaterBody == [EmptyBody EXCEPT !.task = "t", !.submissionText = "S"]

SaveBodies == {TextBody, LaterBody}

\* reviews of one user's documents, with the editor saving meanwhile
NextReviewSave ==
    \/ \E t \in GenTitles : PostDocuments(t)
    \/ \E id \in Ids, body \in SaveBodies : PostData(id, body)
    \/ \E id \in Ids : ReviewStart(id)
    \/ \E ai \in AiResponses : ReviewFinish(ai)

SpecReviewSave == InitReview /\ [][NextReviewSave]_vars

\* ------------------------------------------------------- the export driver

\* an export of one item with this correction, the cursor at one of StartYs
InitRender ==
    /\ rv \in Variants
    /\ text \in Strings
    /\ perLine \in {2, 4}
    /\ rpc = "start"
    /\ doc \in {[y |-> y, page |-> 1] : y \in StartYs(rv)}
    /\ segments = <<>>
    /\ placed = <<>>
    /\ sv = "klar"
    /\ StoreIdle

\* sectionLabel(doc, 'Korrigierter Text'); the driver reaches it only for a
\* non-empty correction
SectionLabel ==
    /\ rpc = "start"
    /\ text # <<>>
    /\ LET c == checkPage(rv, [x |-> Margin(rv), y |-> doc.y, page |-> doc.page], SectionNeed(rv))
       IN  doc' = [y |-> c.y + LabelAdvance(rv), page |-> c.page]
    /\ rpc' = "labelled"
    /\ UNCHANGED <<rv, text, perLine, segments, placed, svars>>

\* renderCorrection(doc, item.correction, W) / wrapCorrection(item.correction, 9, 3.8)
RenderCorrection ==
    /\ rpc = "labelled"
    /\ LET r == Render(rv, perLine, text, doc)
       IN  /\ segments' = r.segments
           /\ placed' = r.placed
           /\ doc' = r.doc
    /\ rpc' = "rendered"
    /\ UNCHANGED <<rv, text, perLine, svars>>

NextRender == SectionLabel \/ RenderCorrection

SpecRender == InitRender /\ [][NextRender]_vars

\* ------------------------------------------------- claims: the renderer

\* the renderer called on any correction string, the empty one included, from
\* a cursor at the top of a page
InitTokenizer ==
    /\ rv \in Variants
    /\ text \in Strings
    /\ perLine = 4
    /\ rpc = "start"
    /\ doc = [y |-> Margin(rv), page |-> 1]
    /\ segments = <<>>
    /\ placed = <<>>
    /\ sv = "klar"
    /\ StoreIdle

\* renderCorrection(doc, text, W) / wrapCorrection(text, 9, 3.8)
RenderText ==
    /\ rpc = "start"
    /\ LET r == Render(rv, perLine, text, doc)
       IN  /\ segments' = r.segments
           /\ placed' = r.placed
           /\ doc' = r.doc
    /\ rpc' = "rendered"
    /\ UNCHANGED <<rv, text, perLine, svars>>

SpecTokenizer == InitTokenizer /\ [][RenderText]_vars

\* what a correction is put together from: a deleted and an added word, a
\* word, a blank
Pieces ==
    {<<"-", "-", "a", "-", "-">>, <<"+", "+", "a", "+", "+">>, <<"a">>, <<" ">>}

RECURSIVE Concat(_)
Concat(ps) == IF ps = <<>> THEN <<>> ELSE Head(ps) \o Concat(Tail(ps))

\* corrections of up to MaxPieces pieces
SpanTexts == {Concat(ps) : ps \in UNION {[1..n -> Pieces] : n \in 1..MaxPieces}}

\* the renderer called on a correction with spans
InitSpans ==
    /\ rv \in Variants
    /\ text \in SpanTexts
    /\ perLine = 4
    /\ rpc = "start"
    /\ doc = [y |-> Margin(rv), page |-> 1]
    /\ segments = <<>>
    /\ placed = <<>>
    /\ sv = "klar"
    /\ StoreIdle

SpecSpans == InitSpans /\ [][RenderText]_vars

\* corrections of words and newlines
LineTexts == {t \in Strings : t # <<>> /\ \A k \in 1..Len(t) : t[k] \in {"a", "\n"}}

\* cursor positions of the driver from which the second line of the correction
\* comes to stand a line-height above the bottom margin, or less than the room
\* asked of checkPage / need above it
ThresholdYs(v) ==
    {Bottom(v) - 2 * LineHeight(v) - LabelAdvance(v) - d :
        d \in {0, LineNeed(v) - LineHeight(v) - 1, LineNeed(v) - LineHeight(v)}}

\* the export driver before a correction section near the end of a page
InitPageBreak ==
    /\ rv \in Variants
    /\ text \in LineTexts
    /\ perLine = 4
    /\ rpc = "start"
    /\ doc \in {[y |-> y, page |-> 1] : y \in ThresholdYs(rv)}
    /\ segments = <<>>
    /\ placed = <<>>
    /\ sv = "klar"
    /\ StoreIdle

SpecPageBreak == InitPageBreak /\ [][NextRender]_vars

Rendered == rpc = "rendered"

LeftMargin == Margin(rv)

RightMargin == Margin(rv) + ContentW(rv)

\* the input re-assembled from the segments: the text of each, with -- -- put
\* back around a deleted (red) one and ++ ++ around an added (green) one
RECURSIVE Unparse(_)
Unparse(segs) ==
    IF segs = <<>> THEN <<>>
    ELSE LET g == Head(segs)
             d == IF g.color = "RED" THEN <<"-", "-">>
                  ELSE IF g.color = "GREEN" THEN <<"+", "+">> ELSE <<>>
         IN  d \o g.t \o d \o Unparse(Tail(segs))

\* C1: the segments of every correction string, re-assembled in order with the
\* delimiters put back, are the input string.
C1_RoundTrip == Rendered => Unparse(segments) = text

\* C2 as stated: every placed token lies between the left and the right margin.
C2_NoOverflowX ==
    \A i \in 1..Len(placed) :
        placed[i].x >= LeftMargin /\ placed[i].x + placed[i].w <= RightMargin

\* C2 amended: every placed token that is no wider than the content width lies
\* between the left and the right margin.
C2_NoOverflowXFitting ==
    \A i \in 1..Len(placed) :
        placed[i].w <= ContentW(rv) =>
            placed[i].x >= LeftMargin /\ placed[i].x + placed[i].w <= RightMargin

\* a word that fits a line was moved to the next line because the room left on
\* its line was too small
C2_Witness ==
    /\ Rendered
    /\ \A k \in 1..Len(text) : text[k] # "\n"
    /\ \E i \in 2..Len(placed) :
          /\ placed[i].w <= ContentW(rv)
          /\ placed[i].x = LeftMargin
          /\ placed[i].word # <<" ">>
          /\ placed[i - 1].x + placed[i - 1].w + placed[i].w > RightMargin

\* C3: every placed token, those of the first line included, has the room of a
\* line above the bottom margin.
C3_NoOverflowY ==
    \A i \in 1..Len(placed) : placed[i].y + LineHeight(rv) <= Bottom(rv)

\* the word tokens of a text, read off its characters: the maximal runs of
\* non-whitespace, in order
WordStarts(t) == {k \in 1..Len(t) : ~IsSpace(t[k]) /\ (k = 1 \/ IsSpace(t[k - 1]))}

WordEnd(t, k) ==
    CHOOSE e \in k..Len(t) :
        /\ \A m \in k..e : ~IsSpace(t[m])
        /\ (e = Len(t) \/ IsSpace(t[e + 1]))

RECURSIVE WordsFrom(_, _)
WordsFrom(t, k) ==
    IF k > Len(t) THEN <<>>
    ELSE IF k \in WordStarts(t)
         THEN <<SubSeq(t, k, WordEnd(t, k))>> \o WordsFrom(t, WordEnd(t, k) + 1)
         ELSE WordsFrom(t, k + 1)

RECURSIVE TokenizerWords(_)
TokenizerWords(segs) ==
    IF segs = <<>> THEN <<>> ELSE WordsFrom(Head(segs).t, 1) \o TokenizerWords(Tail(segs))

IsWordPlacement(p) == \E k \in 1..Len(p.word) : ~IsSpace(p.word[k])

PlacedWords ==
    LET ps == SelectSeq(placed, IsWordPlacement)
    IN  [i \in 1..Len(ps) |-> ps[i].word]

\* C4: the word tokens placed, over all pages and in placement order, are the
\* word tokens of the segments, each once: none dropped, none placed twice.
C4_Completeness ==
    Rendered => /\ PlacedWords = TokenizerWords(segments)
                /\ Len(PlacedWords) = Len(TokenizerWords(segments))

\* three words were placed, with a wrap and a page break between them
C4_Witness ==
    /\ Rendered
    /\ Len(PlacedWords) >= 3
    /\ \E i, j \in 1..Len(placed) :
          /\ i < j
          /\ IsWordPlacement(placed[i]) /\ IsWordPlacement(placed[j])
          /\ placed[i].page < placed[j].page
    /\ \E i \in 2..Len(placed) :
          /\ IsWordPlacement(placed[i])
          /\ placed[i].page = placed[1].page
          /\ placed[i].y > placed[1].y

\* --------------------------------------------------------- claims: the store

\* C5: in every reachable state no two stored documents have the same title,
\* whatever creates, deletes and generate-exercise requests led to it.
C5_TitleUniqueness ==
    \A i, j \in 1..Len(documents) : documents[i].title = documents[j].title => i = j

\* a second document was added by the generate-exercise flow after retrying
\* a title that was taken
C5_Witness ==
    /\ Len(documents) = 2
    /\ resp.op = "POST /exercises/generate"
    /\ resp.status = 200
    /\ documents[2].title = resp.title

\* C6: a POST /documents whose trimmed title is the title of a stored document
\* is answered 400 with the duplicate message, and leaves the store as it was.
C6_DuplicateRejected ==
    [][(/\ resp'.op = "POST /documents"
        /\ \E i \in 1..Len(documents) : documents[i].title = resp'.title)
       => /\ resp'.status = 400
          /\ resp'.error = DuplicateMessage
          /\ documents' = documents
          /\ contents' = contents
          /\ kv' = kv]_vars

\* a duplicate title was just rejected while something is saved for a document
C6_Witness ==
    /\ resp.op = "POST /documents"
    /\ resp.status = 400
    /\ resp.error = DuplicateMessage
    /\ \E i \in 1..Len(documents) : documents[i].title = resp.title
    /\ contents # <<>>

\* the title of the document a request named by id, before the request
TitleOf(docs, id) == getDocument(docs, id).title

\* C7: after a DELETE /documents/:id that succeeds the document is gone,
\* nothing saved for it remains, and every other document and everything
\* saved for other documents is as before.
C7_DeleteCascade ==
    [][(resp'.op = "DELETE /documents" /\ resp'.status = 200)
       => /\ getDocument(documents', resp'.id) = NoDocument
          /\ documents' = SelectSeq(documents, LAMBDA d : d.id # resp'.id)
          /\ getContent(contents', resp'.id) = EmptyContent
          /\ contents' = SelectSeq(contents, LAMBDA c : c.documentId # resp'.id)
          /\ \A k \in DOMAIN kv' : k[1] # TitleOf(documents, resp'.id)
          /\ \A k \in DOMAIN kv :
                k[1] # TitleOf(documents, resp'.id) => k \in DOMAIN kv' /\ kv'[k] = kv[k]]_vars

\* C8: a DELETE /documents/:id for an id no stored document has is answered
\* 404, and leaves the store as it was.
C8_DeleteMissing ==
    [][(resp'.op = "DELETE /documents" /\ IndexOfDoc(documents, resp'.id) = 0)
       => /\ resp'.status = 404
          /\ documents' = documents
          /\ contents' = contents
          /\ kv' = kv]_vars

\* pages from..to of the listing, one after the other
RECURSIVE PagesFrom(_, _, _, _)
PagesFrom(docs, limit, from, to) ==
    IF from > to THEN <<>>
    ELSE getDocuments(docs, from, limit).documents \o PagesFrom(docs, limit, from + 1, to)

AllPages(docs, limit) ==
    PagesFrom(docs, limit, 1, getDocuments(docs, 1, limit).totalPages)

\* C9: for every limit, the pages 1..totalPages of getDocuments one after the
\* other hold every stored document exactly once, newest first, and totalItems
\* is their number.
C9_Pagination ==
    sv \in Relational =>
        \A limit \in 1..MaxLimit :
            LET all == AllPages(documents, limit)
            IN  /\ Len(all) = Len(documents)
                /\ \A i \in 1..Len(documents) :
                      Cardinality({k \in 1..Len(all) : all[k] = documents[i]}) = 1
                /\ \A k \in 1..(Len(all) - 1) :
                      all[k].creationDate >= all[k + 1].creationDate
                /\ \A p \in 1..getDocuments(documents, 1, limit).totalPages :
                      getDocuments(documents, p, limit).totalItems = Len(all)

\* two documents, the newer one stored last, listed on two pages
C9_Witness ==
    /\ sv \in Relational
    /\ Len(documents) = 2
    /\ documents[1].creationDate < documents[2].creationDate
    /\ getDocuments(documents, 1, 1).totalPages = 2
    /\ getDocuments(documents, 1, 1).documents = <<documents[2]>>

\* an answer of the AI service that is no JSON, or lacks a numeric score, a
\* string feedback or a string correction
Malformed(ai) ==
    \/ ai.kind \in {"notJson", "null"}
    \/ /\ ai.kind = "object"
       /\ \/ TypeOf(ai.score) # "number"
          \/ TypeOf(ai.feedback) # "string"
          \/ TypeOf(ai.correction) # "string"

ReviewFields(c) == <<c.reviewScore, c.reviewFeedback, c.correction>>

\* C10: a review whose AI answer is malformed ends with the generic failure
\* (500 'Failed to review content') and the document's stored reviewScore,
\* reviewFeedback and correction are as before.
C10_MalformedRejected ==
    [][(resp'.op = "POST /content/review" /\ Malformed(resp'.ai))
       => /\ resp'.status = 500
          /\ resp'.error = ReviewFailure
          /\ ReviewFields(getContent(contents', resp'.id))
               = ReviewFields(getContent(contents, resp'.id))]_vars

\* C11: a generate-exercise request in flight has made fewer than 3 colliding
\* attempts, it ends; a colliding attempt leaves the documents as they were;
\* and it ends with 409 exactly on the third collision.
C11_BoundedRetry ==
    /\ [](gen.active => gen.attempt < MAX_RETRIES)
    /\ [][(resp'.op = "generate retry" \/ resp'.status = 409)
          => /\ gen.active
             /\ \E i \in 1..Len(documents) : documents[i].title = resp'.title
             /\ documents' = documents
             /\ contents' = contents
             /\ nextId' = nextId
             /\ (resp'.status = 409) = (gen.attempt = MAX_RETRIES - 1)]_vars
    /\ (gen.active ~> ~gen.active)

\* a request gave up after its third collision
C11_Witness ==
    /\ resp.op = "POST /exercises/generate"
    /\ resp.status = 409
    /\ ~gen.active
    /\ \E i \in 1..Len(documents) : documents[i].title = resp.title

\* C12: a POST /db/import of the file GET /db/export gave succeeds and leaves
\* exactly the exported documents and contents in the store, so that every
\* read answers from them.
C12_BackupRoundTrip ==
    [][resp'.op = "POST /db/import"
       => /\ resp'.status = 200
          /\ documents' = backup.documents
          /\ contents' = backup.contents
          /\ \A id \in Ids :
                /\ getDocument(documents', id) = getDocument(backup.documents, id)
                /\ getContent(contents', id) = getContent(backup.contents, id)
          /\ \A limit \in 1..MaxLimit, page \in 1..MaxDocs :
                getDocuments(documents', page, limit)
                  = getDocuments(backup.documents, page, limit)]_vars

\* C13: a text handed to the review service has at least 100 words.
C13_MinimumLength ==
    review.active => countWords(review.content.submissionText) >= MinWords

\* the tokens of the segments in placement order, each with its segment's kind
IsToken(it) == ~it.nl

Tokens == SelectSeq(Items(segments), IsToken)

\* C14: every token of an Unmarked segment is placed black without bold or
\* strikethrough, every token of a Deleted segment red with strikethrough,
\* every token of an Added segment green and bold.
C14_Styling ==
    Rendered =>
        /\ Len(placed) = Len(Tokens)
        /\ \A i \in 1..Len(placed) :
              /\ placed[i].color = Tokens[i].color
              /\ placed[i].strike = (Tokens[i].color = "RED")
              /\ placed[i].bold = (Tokens[i].color = "GREEN")

\* an opening delimiter at i with a closing delimiter of its kind after it
OpensSpan(t, i) ==
    \E d \in {"-", "+"} :
        /\ IsDelim(t, i, d)
        /\ \E j \in (i + 2)..Len(t) : IsDelim(t, j, d)

HasCompleteSpan(t) == \E i \in 1..Len(t) : OpensSpan(t, i)

HasOpeningDelimiter(t) == \E i \in 1..Len(t) : IsDelim(t, i, "-") \/ IsDelim(t, i, "+")

\* C15: an input with no complete span, an opening delimiter without its
\* closing delimiter included, yields one Unmarked segment equal to the input
\* if it is not empty, and no segment if it is.
C15_FailOpen ==
    (Rendered /\ ~HasCompleteSpan(text)) =>
        segments = IF text = <<>> THEN <<>> ELSE <<Black(text)>>

\* a text with an opening delimiter that is never closed came out as one
\* Unmarked segment
C15_Witness ==
    /\ Rendered
    /\ HasOpeningDelimiter(text)
    /\ ~HasCompleteSpan(text)
    /\ Len(text) > 2
    /\ segments = <<Black(text)>>

\* t[i..j] is a span: a delimiter, a text without delimiter characters and
\* newlines, the same delimiter
IsSpan(t, i, j) ==
    /\ j >= i + 3
    /\ \E d \in {"-", "+"} : IsDelim(t, i, d) /\ IsDelim(t, j - 1, d)
    /\ \A k \in (i + 2)..(j - 2) : t[k] \notin {"-", "+", "\n"}

SpanKind(t, i) == IF t[i] = "-" THEN "RED" ELSE "GREEN"

\* C16: when a span is directly followed by a span (after unmarked text, if
\* any), the two marked segments are emitted next to each other, with no
\* segment between them.
C16_AdjacentSpans ==
    Rendered =>
        \A i, m, j \in 1..Len(text) :
            (/\ IsSpan(text, i, m)
             /\ IsSpan(text, m + 1, j)
             /\ \A k \in 1..(i - 1) : text[k] \notin {"-", "+"})
            => LET k == IF i > 1 THEN 2 ELSE 1
               IN  /\ Len(segments) >= k + 1
                   /\ segments[k].t = SubSeq(text, i + 2, m - 2)
                   /\ segments[k].color = SpanKind(text, i)
                   /\ segments[k + 1].t = SubSeq(text, m + 3, j - 2)
                   /\ segments[k + 1].color = SpanKind(text, m + 1)

NoNewline(t) == \A k \in 1..Len(t) : t[k] # "\n"

\* where the cursor stands after placement p
CursorAfter(p) == p.x + p.w

\* placement q is the first of the line under the line of placement p
OnNextLine(p, q) ==
    /\ q.x = LeftMargin
    /\ \/ q.page = p.page /\ q.y = p.y + LineHeight(rv)
       \/ q.page = p.page + 1 /\ q.y = Margin(rv)

\* placement q continues the line of placement p
OnSameLine(p, q) == q.page = p.page /\ q.y = p.y /\ q.x = CursorAfter(p)

\* C17: in a text without newlines a token is moved to the next line exactly
\* when the cursor is past the left margin and the token would end strictly
\* beyond the right margin; otherwise it continues the line, also when it ends
\* exactly at the right margin; the first token is placed at the left margin
\* of the line the renderer starts on, whatever its width.
C17_WrapRule ==
    [][(rpc = "labelled" /\ rpc' = "rendered" /\ NoNewline(text)) =>
          /\ placed' # <<>> =>
                /\ placed'[1].x = LeftMargin
                /\ \/ placed'[1].page = doc.page /\ placed'[1].y = doc.y
                   \/ placed'[1].page = doc.page + 1 /\ placed'[1].y = Margin(rv)
          /\ \A i \in 2..Len(placed') :
                IF /\ CursorAfter(placed'[i - 1]) > LeftMargin
                   /\ CursorAfter(placed'[i - 1]) + placed'[i].w > RightMargin
                THEN OnNextLine(placed'[i - 1], placed'[i])
                ELSE OnSameLine(placed'[i - 1], placed'[i])]_vars

\* a token that ends exactly at the right margin stayed on its line, and the
\* token after it was moved to the next line
C17_Witness ==
    /\ Rendered
    /\ NoNewline(text)
    /\ \E i \in 2..(Len(placed) - 1) :
          /\ CursorAfter(placed[i]) = RightMargin
          /\ OnSameLine(placed[i - 1], placed[i])
          /\ OnNextLine(placed[i], placed[i + 1])

\* the positions of the tokens in the token stream of the segments
IsTokenAt(k) == ~Items(segments)[k].nl

TokenPositions == SelectSeq([k \in 1..Len(Items(segments)) |-> k], IsTokenAt)

\* the forced newlines between token i - 1 and token i
NewlinesBefore(i) ==
    IF i = 1 THEN TokenPositions[1] - 1
    ELSE TokenPositions[i] - TokenPositions[i - 1] - 1

NewlinesOf(t) == Cardinality({k \in 1..Len(t) : t[k] = "\n"})

\* C18: every newline of the text is a forced line break; a token with forced
\* newlines before it is placed at the left margin, one line-height per
\* newline below the token before it if no page break came between, and on
\* the next page a whole number of lines below the top margin otherwise.
C18_ForcedNewline ==
    Rendered =>
        /\ Len(Items(segments)) - Len(Tokens) = NewlinesOf(text)
        /\ Len(placed) = Len(Tokens)
        /\ \A i \in 2..Len(placed) :
              NewlinesBefore(i) >= 1 =>
                  /\ placed[i].x = LeftMargin
                  /\ \/ /\ placed[i].page = placed[i - 1].page
                        /\ placed[i].y = placed[i - 1].y + NewlinesBefore(i) * LineHeight(rv)
                     \/ /\ placed[i].page = placed[i - 1].page + 1
                        /\ \E k \in 0..(NewlinesBefore(i) - 1) :
                              placed[i].y = Margin(rv) + k * LineHeight(rv)

\* a newline broke a line that still had room for the next token
C18_Witness ==
    /\ Rendered
    /\ \E i \in 2..Len(placed) :
          /\ NewlinesBefore(i) = 1
          /\ CursorAfter(placed[i - 1]) + placed[i].w <= RightMargin
          /\ placed[i].page = placed[i - 1].page
          /\ placed[i].x = LeftMargin
          /\ placed[i].y = placed[i - 1].y + LineHeight(rv)

\* token i is the first of its line, one line break after token i - 1
AfterOneBreak(i) ==
    /\ i \in 2..Len(placed)
    /\ placed[i].x = LeftMargin
    /\ NewlinesBefore(i) <= 1

StartsPage(i) ==
    /\ placed[i].page = placed[i - 1].page + 1
    /\ placed[i].y = Margin(rv)
    /\ placed[i].x = LeftMargin

StartsLine(i) ==
    /\ placed[i].page = placed[i - 1].page
    /\ placed[i].y = placed[i - 1].y + LineHeight(rv)
    /\ placed[i].x = LeftMargin

\* what checkPage / need asks for beyond the height of a line: 2 pt, 1 mm
Slack(v) == IF v = "renderCorrection" THEN 200 ELSE 100

SameLine(p, q) == p.page = q.page /\ p.y = q.y

\* the width of one blank in the font of placement p
SpaceWidth(p) == widthOfString(rv, perLine, <<" ">>, p.bold)

\* C20: a word that follows a word and a whitespace run on the same line
\* starts one space-width after the end of the first word, however many
\* whitespace characters the run holds.
C20_WhitespaceCollapse ==
    Rendered =>
        \A i \in 1..(Len(placed) - 2) :
            (/\ IsWordPlacement(placed[i])
             /\ ~IsWordPlacement(placed[i + 1])
             /\ IsWordPlacement(placed[i + 2])
             /\ SameLine(placed[i], placed[i + 1])
             /\ SameLine(placed[i], placed[i + 2]))
            => placed[i + 2].x = CursorAfter(placed[i]) + SpaceWidth(placed[i + 1])

\* C21: a whitespace token that follows a token with no newline between them
\* continues that token's line (it causes no line break and no page break and
\* is not the first thing on a line), and a word that was wrapped starts
\* exactly at the left margin.
C21_WhitespaceOnlyAdvances ==
    Rendered =>
        \A i \in 2..Len(placed) :
            NewlinesBefore(i) = 0 =>
                /\ ~IsWordPlacement(placed[i]) => OnSameLine(placed[i - 1], placed[i])
                /\ (IsWordPlacement(placed[i]) /\ ~SameLine(placed[i - 1], placed[i]))
                       => placed[i].x = LeftMargin

\* C22: the tokens are placed in the order of the token stream; along it the
\* page never decreases, y never decreases within a page, and of two tokens on
\* the same line the later one starts at or after the end of the earlier one.
C22_OrderNoOverlap ==
    Rendered =>
        /\ Len(placed) = Len(Tokens)
        /\ \A i \in 1..Len(placed) : placed[i].word = Tokens[i].word
        /\ \A i, j \in 1..Len(placed) :
              i < j =>
                  /\ placed[i].page <= placed[j].page
                  /\ placed[i].page = placed[j].page => placed[i].y <= placed[j].y
                  /\ SameLine(placed[i], placed[j]) => CursorAfter(placed[i]) <= placed[j].x

\* two tokens share a line, and a later token stands on the next page
C22_Witness ==
    /\ Rendered
    /\ \E i, j, k \in 1..Len(placed) :
          /\ i < j /\ j < k
          /\ SameLine(placed[i], placed[j])
          /\ placed[k].page = placed[j].page + 1
          /\ placed[k].y < placed[j].y

TitleStored(title) == \E i \in 1..Len(documents) : documents[i].title = title

Exported == resp.op = "GET /export/pdf" /\ resp.status = 200

\* how often the export printed the section of a document under a label
Printed(id, label, vias, value) ==
    Cardinality({k \in 1..Len(pdf) :
        /\ pdf[k].id = id /\ pdf[k].label = label
        /\ pdf[k].via \in vias /\ pdf[k].value = value})

PrintedAny(id, label) == Cardinality({k \in 1..Len(pdf) : pdf[k].id = id /\ pdf[k].label = label})

NonEmpty(x) == x \notin {"", Undefined, Null}

\* the place of a document in the newest-first order
PlaceOf(id) == IndexOfDoc(sortByNewest(documents), id)

\* the sections follow the documents' newest-first order
NewestFirst == \A k, l \in 1..Len(pdf) : k < l => PlaceOf(pdf[k].id) <= PlaceOf(pdf[l].id)

\* task, feedback and correction of document d are printed once if not empty
\* and not at all otherwise
FieldsPrinted(d) ==
    LET c == getContent(contents, d.id)
    IN  /\ PrintedAny(d.id, "Aufgabe") = (IF NonEmpty(c.task) THEN 1 ELSE 0)
        /\ NonEmpty(c.task) => Printed(d.id, "Aufgabe", {"text"}, c.task) = 1
        /\ PrintedAny(d.id, "Feedback") = (IF NonEmpty(c.reviewFeedback) THEN 1 ELSE 0)
        /\ NonEmpty(c.reviewFeedback) => Printed(d.id, "Feedback", {"text"}, c.reviewFeedback) = 1
        /\ PrintedAny(d.id, "Korrigierter Text") = (IF NonEmpty(c.correction) THEN 1 ELSE 0)
        /\ NonEmpty(c.correction)
              => Printed(d.id, "Korrigierter Text", Variants, c.correction) = 1

\* C24 as stated: every exported document's non-empty task, feedback and
\* submission are printed once as plain text and its correction once through
\* the correction renderer, in the documents' newest-first order.
C24_ExportCoverage ==
    Exported =>
        /\ NewestFirst
        /\ \A i \in 1..Len(documents) :
              LET c == getContent(contents, documents[i].id)
              IN  /\ FieldsPrinted(documents[i])
                  /\ NonEmpty(c.submissionText)
                        => Printed(documents[i].id, "Einreichung", {"text"}, c.submissionText) = 1

\* C24 amended: task, feedback and correction as stated; the submission is
\* printed once as plain text when it is not empty and the document has no
\* feedback, and not at all when the document has feedback.
C24_ExportCoverageNoFeedback ==
    Exported =>
        /\ NewestFirst
        /\ \A i \in 1..Len(documents) :
              LET c == getContent(contents, documents[i].id)
                  shown == NonEmpty(c.submissionText) /\ ~NonEmpty(c.reviewFeedback)
              IN  /\ FieldsPrinted(documents[i])
                  /\ PrintedAny(documents[i].id, "Einreichung") = (IF shown THEN 1 ELSE 0)
                  /\ shown => Printed(documents[i].id, "Einreichung", {"text"}, c.submissionText) = 1

\* an export of a reviewed document and a newer document that was only saved
C24_Witness ==
    /\ Exported
    /\ Len(documents) = 2
    /\ documents[1].creationDate < documents[2].creationDate
    /\ pdf[1].id = documents[2].id
    /\ PrintedAny(documents[2].id, "Einreichung") = 1
    /\ PrintedAny(documents[1].id, "Feedback") = 1
    /\ PrintedAny(documents[1].id, "Korrigierter Text") = 1
    /\ PrintedAny(documents[1].id, "Einreichung") = 0

Listed == resp.op = "GET /documents"

\* C25: the answer of getDocuments to any page and any limit >= 1 has
\* totalPages = max(1, ceil(totalItems / limit)), the page asked for clamped
\* into 1..totalPages, at most limit documents and at least one if the store
\* is not empty; a page beyond the last is answered with the last page.
C25_PageClamping ==
    Listed =>
        LET r == listing.result
            n == Len(documents)
        IN  /\ r.limit >= 1
            /\ r.totalItems = n
            /\ r.totalPages >= 1
            /\ n = 0 => r.totalPages = 1
            /\ n > 0 => (r.totalPages - 1) * r.limit < n /\ n <= r.totalPages * r.limit
            /\ r.page = (IF listing.asked < 1 THEN 1
                          ELSE IF listing.asked > r.totalPages THEN r.totalPages
                          ELSE listing.asked)
            /\ Len(r.documents) <= r.limit
            /\ n > 0 => Len(r.documents) >= 1
            /\ listing.asked > r.totalPages
                  => r = getDocuments(documents, r.totalPages, r.limit)

\* a page beyond the last of a store of three documents, two to a page, was
\* answered with the second page and its one document
C25_Witness ==
    /\ Listed
    /\ Len(documents) = 3
    /\ listing.result.limit = 2
    /\ listing.result.totalPages = 2
    /\ listing.asked > 2
    /\ listing.result.page = 2
    /\ Len(listing.result.documents) = 1

\* the value a field of the record takes: the supplied one, or the default if
\* the command leaves the field out
Supplied(x, default) == IF x \in {Undefined, Null} THEN default ELSE x

RecordsOf(conts, id) == {k \in 1..Len(conts) : conts[k].documentId = id}

\* the content records of the documents other than id, in order
OtherRecords(conts, id) ==
    LET Other(c) == c.documentId # id
    IN  SelectSeq(conts, Other)

\* C26: after a POST /data/:documentId that succeeds the store holds exactly
\* one content record for the document, made of the supplied fields and of the
\* defaults ('' and null for reviewScore) for the fields left out, whatever was
\* stored before; the records of the other documents are unchanged; a request
\* that fails changes nothing.
C26_UpsertReplaces ==
    [][\A id \in Ids, body \in ContentBodies :
          PostData(id, body) =>
              IF resp'.status = 200
              THEN /\ Cardinality(RecordsOf(contents', id)) = 1
                   /\ \A k \in RecordsOf(contents', id) :
                         /\ contents'[k].task = Supplied(body.task, "")
                         /\ contents'[k].submissionText = Supplied(body.submissionText, "")
                         /\ contents'[k].reviewScore = Supplied(body.reviewScore, Null)
                         /\ contents'[k].reviewFeedback = Supplied(body.reviewFeedback, "")
                         /\ contents'[k].correction = Supplied(body.correction, "")
                   /\ OtherRecords(contents', id) = OtherRecords(contents, id)
              ELSE contents' = contents]_vars

\* a reviewed record was replaced by a saved text, beside the record of
\* another document: its review fields are back at their defaults
C26_Witness ==
    /\ resp.op = "POST /data" /\ resp.status = 200
    /\ Len(contents) = 2
    /\ \E k \in 1..2 :
          /\ contents[k].documentId = resp.id
          /\ contents[k].submissionText = "s"
          /\ contents[k].reviewScore = Null
          /\ contents[k].reviewFeedback = ""
          /\ contents[3 - k].reviewFeedback = "f"

\* C27: every content record belongs to a stored document.
C27_NoOrphanedContent ==
    sv \in Relational =>
        \A k \in 1..Len(contents) :
            \E i \in 1..Len(documents) : documents[i].id = contents[k].documentId

\* C28: the document of every createDocument call that has returned is in
\* the persisted store (no call of the specification deletes a document).
C28_NoLostCreate ==
    \A p \in Callers :
        db.calls[p].pc = "returned" =>
            \E i \in 1..Len(documents) : documents[i] = db.calls[p].document

\* C29: when a review request completes with success, the task and the
\* submissionText of the reviewed document are the values that were stored
\* just before it completed (values saved while the AI service was asked
\* included); the review changes the review fields only.
C29_ReviewKeepsText ==
    [][\A ai \in AiResponses :
          (ReviewFinish(ai) /\ resp'.status = 200) =>
              /\ getContent(contents', review.id).task
                    = getContent(contents, review.id).task
              /\ getContent(contents', review.id).submissionText
                    = getContent(contents, review.id).submissionText]_vars

\* C30: a generate-exercise request that answers 409 or 500 leaves no
\* document and no content of its own in the store; one that answers with
\* success has created exactly one document, titled with the generated
\* title, whose content holds the generated task.
C30_GenerateAllOrNothing ==
    [][\A g \in GenResults, io \in StoreFaults :
          (GenerateTurn(g, io) /\ resp'.op = "POST /exercises/generate") =>
              /\ resp'.status \in {409, 500} =>
                    /\ documents' = documents
                    /\ contents' = contents
              /\ resp'.status = 200 =>
                    /\ Len(documents') = Len(documents) + 1
                    /\ \E i \in 1..Len(documents') :
                          /\ documents'[i].id = resp'.id
                          /\ documents'[i].title = g.title
                    /\ getContent(contents', resp'.id).task = g.task]_vars

============================================================================
